---- MODULE Spec2Model ----
(***************************************************************************)
(* Model of the generative-AI orchestration layer (geminiService):         *)
(* data-URI codec, prompt/attachment assembly, one backend round trip per  *)
(* call, and response extraction/validation.                                *)
(*                                                                         *)
(* JavaScript strings that the code takes apart (data URIs, JSON texts)    *)
(* are sequences of lexical chunks; plain texts are TLA+ strings.          *)
(***************************************************************************)
EXTENDS Integers, Sequences, FiniteSets, TLC

VARIABLES calls, codec

vars == <<calls, codec>>

(***************************************************************************)
(* Bounds                                                                  *)
(***************************************************************************)
MaxMimeLen == 2
MaxDataLen == 2
MaxStrLen == 4
MaxRoster == 2
MaxParts == 2
MaxImages == 2
MaxPages == 2
MaxPanels == 2

(***************************************************************************)
(* JavaScript values                                                       *)
(***************************************************************************)
\* the value undefined in a slot that holds a chunked string
UndefinedStr == <<"\\undefined">>

\* the value undefined in a slot that holds a plain text
undefined == "\\undefined"

\* the value null in a slot that holds a plain text or a chunked string
null == "\\null"
NullStr == <<"\\null">>

\* the value undefined in a slot that holds a part of a request or response
NoPart == [kind |-> "none", data |-> UndefinedStr, mimeType |-> UndefinedStr,
           text |-> undefined]

\* ToBoolean of a chunked string: undefined, null and '' are falsy
TruthyStr(s) == s # UndefinedStr /\ s # NullStr /\ s # <<>>

\* ToBoolean of a plain text
Truthy(t) == t # undefined /\ t # null /\ t # ""

\* ${...} interpolation of a chunked string
Interp(s) == IF s = UndefinedStr THEN <<"undefined">> ELSE s

\* ${...} interpolation of a plain text
InterpText(t) == IF t = undefined THEN "undefined" ELSE t

\* x || ''
OrEmpty(t) == IF Truthy(t) THEN t ELSE ""

RECURSIVE Flatten(_)
Flatten(ss) == IF ss = <<>> THEN <<>> ELSE Head(ss) \o Flatten(Tail(ss))

RECURSIVE SeqsUpTo(_, _)
SeqsUpTo(S, n) ==
    IF n = 0 THEN {<<>>}
    ELSE LET shorter == SeqsUpTo(S, n - 1)
         IN  shorter \cup {Append(s, x) : s \in shorter, x \in S}

(***************************************************************************)
(* Image codec                                                             *)
(***************************************************************************)
\* String.prototype.match(/data:(image\/.*?);/)?.[1]: capture group of the
\* leftmost match; '.' does not cross a line terminator; '*?' is lazy.
FirstSemi(s, from) ==
    LET js == {j \in from..Len(s) : s[j] = ";"}
    IN  IF js = {} THEN 0 ELSE CHOOSE j \in js : \A k \in js : j <= k

MatchesAt(s, i) ==
    /\ i + 1 <= Len(s)
    /\ s[i] = "data:"
    /\ s[i + 1] = "image/"
    /\ FirstSemi(s, i + 2) # 0
    /\ \A k \in (i + 2)..(FirstSemi(s, i + 2) - 1) : s[k] # "\n"

MatchImageMime(s) ==
    LET starts == {i \in 1..Len(s) : MatchesAt(s, i)}
    IN  IF starts = {} THEN UndefinedStr
        ELSE LET i == CHOOSE x \in starts : \A y \in starts : x <= y
             IN  SubSeq(s, i + 1, FirstSemi(s, i + 2) - 1)

\* x.match(/data:(image\/.*?);/)?.[1] || 'image/png'
MimeTypeOf(s) ==
    IF TruthyStr(MatchImageMime(s)) THEN MatchImageMime(s)
    ELSE <<"image/", "png">>

\* mutant: base64.split(',')[0]
SplitComma0(s) ==
    LET cs == {j \in 1..Len(s) : s[j] = ","}
    IN  IF cs = {} THEN s
        ELSE SubSeq(s, 1, (CHOOSE j \in cs : \A k \in cs : j <= k) - 1)

\* base64.split(',')[1]
SplitComma1(s) ==
    LET cs == {j \in 1..Len(s) : s[j] = ","}
    IN  IF cs = {} THEN UndefinedStr
        ELSE LET c1 == CHOOSE j \in cs : \A k \in cs : j <= k
                 later == {j \in cs : j > c1}
                 c2 == IF later = {} THEN Len(s) + 1
                       ELSE CHOOSE j \in later : \A k \in later : j <= k
             IN  SubSeq(s, c1 + 1, c2 - 1)

base64ToGeminiPart(base64, mimeType) ==
    [kind |-> "inlineData", data |-> SplitComma1(base64), mimeType |-> mimeType,
     text |-> undefined]

\* the decode every operation applies to an attached image
ImagePart(image) == base64ToGeminiPart(image, MimeTypeOf(image))

\* Array.prototype.map over image strings
ImageParts(images) == [i \in 1..Len(images) |-> ImagePart(images[i])]

\* `data:${mimeType};base64,${data}`
DataUri(mimeType, data) ==
    <<"data:">> \o Interp(mimeType) \o <<";", "base64", ",">> \o Interp(data)

(***************************************************************************)
(* Inputs supplied by the caller                                           *)
(***************************************************************************)
PngA == <<"data:", "image/", "png", ";", "base64", ",", "AAAA">>
JpegB == <<"data:", "image/", "jpeg", ";", "base64", ",", "BBBB">>
RawC == <<"CCCC">>

Images == {PngA, JpegB, RawC}
ImageLists == SeqsUpTo(Images, MaxImages)

\* Character: name, description?, sheetImage, referenceImages
Aki == [name |-> "Aki", description |-> "hero", sheetImage |-> PngA,
        referenceImages |-> <<JpegB, RawC>>]
Rin == [name |-> "Rin", description |-> undefined, sheetImage |-> JpegB,
        referenceImages |-> <<PngA>>]
Zed == [name |-> "Zed", description |-> "", sheetImage |-> UndefinedStr,
        referenceImages |-> <<>>]
Characters == {Aki, Rin, Zed}
Rosters == SeqsUpTo(Characters, MaxRoster)

\* Pick<Page, 'generatedImage' | 'sceneDescription'>; present = FALSE is the
\* argument undefined
NoPage == [present |-> FALSE, generatedImage |-> UndefinedStr,
           sceneDescription |-> undefined]
Page(image, script) == [present |-> TRUE, generatedImage |-> image,
                        sceneDescription |-> script]
PreviousPages == {NoPage, Page(JpegB, "prev script"), Page(UndefinedStr, "prev script"),
                  Page(<<>>, "prev script")}

(***************************************************************************)
(* Backend responses                                                       *)
(***************************************************************************)
TextPart(t) == [kind |-> "text", data |-> UndefinedStr, mimeType |-> UndefinedStr,
                text |-> t]
InlinePart(mimeType, data) == [kind |-> "inlineData", data |-> data,
                               mimeType |-> mimeType, text |-> undefined]

ResponseParts ==
    {TextPart("I cannot draw that."), TextPart("Here is your page."), TextPart(""),
     InlinePart(<<"image/", "png">>, <<"XXXX">>),
     InlinePart(<<"image/", "jpeg">>, <<"YYYY">>)}

\* hasCandidates = FALSE is response.candidates undefined
ImageResponses ==
    {[hasCandidates |-> FALSE, candidates |-> <<>>],
     [hasCandidates |-> TRUE, candidates |-> <<>>]}
    \cup {[hasCandidates |-> TRUE, candidates |-> <<ps>>] :
             ps \in SeqsUpTo(ResponseParts, MaxParts)}

\* !response.candidates?.length
NoCandidates(resp) == ~resp.hasCandidates \/ Len(resp.candidates) = 0

\* mutant: the first part is taken for the image part, whatever it carries
FindInlineDataAnyPart(parts) ==
    IF parts = <<>> THEN NoPart ELSE parts[1]

\* parts.find(part => part.inlineData)
FindInlineData(parts) ==
    LET is == {i \in 1..Len(parts) : parts[i].kind = "inlineData"}
    IN  IF is = {} THEN NoPart ELSE parts[CHOOSE i \in is : \A j \in is : i <= j]

\* parts.find(part => part.text)
FindText(parts) ==
    LET is == {i \in 1..Len(parts) : parts[i].kind = "text" /\ Truthy(parts[i].text)}
    IN  IF is = {} THEN NoPart ELSE parts[CHOOSE i \in is : \A j \in is : i <= j]

\* response.text on a multi-modal response: the texts of the first
\* candidate's parts joined, undefined when there is no part
RECURSIVE JoinText(_)
JoinText(parts) ==
    IF parts = <<>> THEN ""
    ELSE (IF Head(parts).kind = "text" THEN Head(parts).text ELSE "") \o JoinText(Tail(parts))

ResponseText(resp) ==
    IF NoCandidates(resp) \/ resp.candidates[1] = <<>> THEN undefined
    ELSE JoinText(resp.candidates[1])

(***************************************************************************)
(* Calls: one record per invocation of a public operation                  *)
(***************************************************************************)
CallIds == {"c1"}

NoArgs == [none |-> TRUE]
NoResponse == [none |-> TRUE]
NoOutcome == [status |-> "none"]

IdleCall ==
    [pc |-> "idle", op |-> "none", args |-> NoArgs, request |-> <<>>,
     sent |-> 0, response |-> NoResponse, outcome |-> NoOutcome]

Returned(v) == [status |-> "returned", value |-> v]
Thrown(msg) == [status |-> "thrown", error |-> msg]

\* reading .match of undefined
TypeErrorMatch == <<"TypeError: Cannot read properties of undefined (reading 'match')">>

\* mutant: the parts array is shared by the calls, so what a pending call
\* pushed is still in it
AwaitSharedParts(c, opName, a, parts) ==
    LET pending == {d \in DOMAIN calls : calls[d].pc = "awaiting"}
        leftover == IF pending = {} THEN <<>>
                    ELSE Tail(calls[CHOOSE d \in pending : TRUE].request)
    IN  calls' = [calls EXCEPT ![c] =
                    [pc |-> "awaiting", op |-> opName, args |-> a,
                     request |-> parts \o leftover,
                     sent |-> 1, response |-> NoResponse, outcome |-> NoOutcome]]

\* ai.models.generateContent({...}) is issued and the call suspends
Await(c, opName, a, parts) ==
    calls' = [calls EXCEPT ![c] =
                [pc |-> "awaiting", op |-> opName, args |-> a, request |-> parts,
                 sent |-> 1, response |-> NoResponse, outcome |-> NoOutcome]]

\* an exception while the request is assembled rejects the promise; no
\* request is issued
FailBeforeRequest(c, opName, a, msg) ==
    calls' = [calls EXCEPT ![c] =
                [pc |-> "done", op |-> opName, args |-> a, request |-> <<>>,
                 sent |-> 0, response |-> NoResponse, outcome |-> Thrown(msg)]]

\* mutant: the outcome is recorded but the invocation is not ended
FinishNotEnded(c, out) ==
    calls' = [calls EXCEPT ![c].outcome = out]

Finish(c, out) ==
    calls' = [calls EXCEPT ![c].pc = "done", ![c].outcome = out]

Resumed(c, opName) == calls[c].pc = "responded" /\ calls[c].op = opName

(***************************************************************************)
(* generateMangaPage                                                       *)
(***************************************************************************)
ColorModeText(colorMode) ==
    IF colorMode = "monochrome" THEN "black and white (monochrome)" ELSE "full color"

MangaPageArgs ==
    {[characters |-> r, panelLayoutImageBase64 |-> l, sceneDescription |-> "scene script",
      colorMode |-> "color", previousPage |-> p, generateEmptyBubbles |-> FALSE] :
        r \in Rosters, l \in {PngA, RawC}, p \in PreviousPages}
    \cup {[characters |-> <<Aki>>, panelLayoutImageBase64 |-> PngA,
           sceneDescription |-> "scene script", colorMode |-> m,
           previousPage |-> NoPage, generateEmptyBubbles |-> b] :
            m \in {"color", "monochrome"}, b \in BOOLEAN}

\* previousPage && previousPage.generatedImage
MangaHasPreviousPage(a) ==
    a.previousPage.present /\ TruthyStr(a.previousPage.generatedImage)

MangaPagePrompt(a) ==
    LET hasPreviousPage == MangaHasPreviousPage(a)
        n(k) == IF hasPreviousPage THEN ToString(k + 1) ELSE ToString(k)
    IN  <<<<"You are an expert manga artist.">>>>
        \o (IF hasPreviousPage THEN <<<<"1.  **Previous Page Image:**">>>> ELSE <<>>)
        \o <<<<"assets", n(1), "Character Sheets", n(2), "Panel Layout with Poses",
               n(3), "Scene Script">>>>
        \o [i \in 1..Len(a.characters) |->
              <<"- **", a.characters[i].name,
                ":** Use the character sheet provided as \"Character Reference ",
                ToString(i), "\".">>]
        \o (IF hasPreviousPage
            THEN <<<<"**Previous Page Script:**",
                     InterpText(a.previousPage.sceneDescription)>>>>
            ELSE <<>>)
        \o <<<<"Color & Style", ColorModeText(a.colorMode)>>,
             <<"Speech Bubbles",
               IF a.generateEmptyBubbles THEN "leave them COMPLETELY EMPTY"
               ELSE "place dialogue inside the speech bubbles">>,
             <<"**Scene Script for the NEW Page:**", InterpText(a.sceneDescription)>>>>

\* mutant: the character sheets are pushed before the previous page
MangaPagePartsSheetsFirst(a) ==
    LET panelLayoutPart == ImagePart(a.panelLayoutImageBase64)
        characterParts == [i \in 1..Len(a.characters) |->
                             ImagePart(a.characters[i].sheetImage)]
    IN  <<[kind |-> "prompt", blocks |-> MangaPagePrompt(a)]>>
        \o characterParts
        \o (IF MangaHasPreviousPage(a)
            THEN <<ImagePart(a.previousPage.generatedImage)>> ELSE <<>>)
        \o <<panelLayoutPart>>

MangaPageParts(a) ==
    LET panelLayoutPart == ImagePart(a.panelLayoutImageBase64)
        characterParts == [i \in 1..Len(a.characters) |->
                             ImagePart(a.characters[i].sheetImage)]
    IN  <<[kind |-> "prompt", blocks |-> MangaPagePrompt(a)]>>
        \o (IF MangaHasPreviousPage(a)
            THEN <<ImagePart(a.previousPage.generatedImage)>> ELSE <<>>)
        \o characterParts \o <<panelLayoutPart>>

\* mutant: the sheet is read with ?. and a missing one is sent as it is
Call_generateMangaPageOptionalSheet(c) ==
    /\ calls[c].pc = "idle"
    /\ \E a \in MangaPageArgs : Await(c, "generateMangaPage", a, MangaPageParts(a))
    /\ UNCHANGED codec

Call_generateMangaPage(c) ==
    /\ calls[c].pc = "idle"
    /\ \E a \in MangaPageArgs :
          IF \E i \in 1..Len(a.characters) : a.characters[i].sheetImage = UndefinedStr
          THEN FailBeforeRequest(c, "generateMangaPage", a, TypeErrorMatch)
          ELSE Await(c, "generateMangaPage", a, MangaPageParts(a))
    /\ UNCHANGED codec

\* the for-loop over the first candidate's parts: the last inline part and
\* the last non-inline part with a truthy text win
MangaPageResult(parts) ==
    LET imgs == {i \in 1..Len(parts) : parts[i].kind = "inlineData"}
        txts == {i \in 1..Len(parts) : parts[i].kind # "inlineData" /\ Truthy(parts[i].text)}
        last(S) == CHOOSE i \in S : \A j \in S : j <= i
    IN  [image |-> IF imgs = {} THEN NullStr
                   ELSE DataUri(parts[last(imgs)].mimeType, parts[last(imgs)].data),
         text |-> IF txts = {} THEN null ELSE parts[last(txts)].text]

Return_generateMangaPage(c) ==
    /\ Resumed(c, "generateMangaPage")
    /\ LET response == calls[c].response
           result == MangaPageResult(response.candidates[1])
       IN  IF NoCandidates(response)
           THEN Finish(c, Thrown(<<"The AI did not return a valid response. It may have been blocked. ",
                                   OrEmpty(ResponseText(response))>>))
           ELSE IF ~TruthyStr(result.image)
           THEN Finish(c, Thrown(<<"The AI did not return an image. It might have refused the request. ",
                                   OrEmpty(result.text)>>))
           ELSE Finish(c, Returned(result))
    /\ UNCHANGED codec

(***************************************************************************)
(* generateLayoutProposal                                                  *)
(***************************************************************************)
ASPECT_RATIO_CONFIG ==
    [key \in {"A4", "Portrait (3:4)", "Square (1:1)", "Widescreen (16:9)"} |->
        CASE key = "A4" -> [w |-> 595, h |-> 842, value |-> "210:297"]
          [] key = "Portrait (3:4)" -> [w |-> 600, h |-> 800, value |-> "3:4"]
          [] key = "Square (1:1)" -> [w |-> 800, h |-> 800, value |-> "1:1"]
          [] key = "Widescreen (16:9)" -> [w |-> 1280, h |-> 720, value |-> "16:9"]]

\* property names every object literal inherits from Object.prototype
ObjectPrototypeKeys ==
    {"constructor", "__proto__", "hasOwnProperty", "isPrototypeOf",
     "propertyIsEnumerable", "toLocaleString", "toString", "valueOf"}

\* ASPECT_RATIO_CONFIG[aspectRatioKey]: an own property, else a member
\* inherited from Object.prototype (an object without w, h, value), else
\* undefined
AspectRatioGet(aspectRatioKey) ==
    IF aspectRatioKey \in DOMAIN ASPECT_RATIO_CONFIG
    THEN [found |-> TRUE, props |-> ASPECT_RATIO_CONFIG[aspectRatioKey]]
    ELSE IF aspectRatioKey \in ObjectPrototypeKeys
    THEN [found |-> TRUE, props |-> [inherited |-> aspectRatioKey]]
    ELSE [found |-> FALSE, props |-> [inherited |-> "undefined"]]

\* ASPECT_RATIO_CONFIG[aspectRatioKey] || ASPECT_RATIO_CONFIG['A4']
AspectRatioProfile(aspectRatioKey) ==
    IF AspectRatioGet(aspectRatioKey).found
    THEN AspectRatioGet(aspectRatioKey).props
    ELSE ASPECT_RATIO_CONFIG["A4"]

\* ${config.w}: a missing property reads undefined
PropText(obj, field) ==
    IF field \in DOMAIN obj THEN ToString(obj[field]) ELSE "undefined"

AspectKeys ==
    DOMAIN ASPECT_RATIO_CONFIG \cup {"Letter", "", "a4", "constructor", "toString"}

NoLayoutPage == [present |-> FALSE, proposalImage |-> UndefinedStr,
                 sceneDescription |-> undefined]
LayoutPreviousPages ==
    {NoLayoutPage,
     [present |-> TRUE, proposalImage |-> JpegB, sceneDescription |-> "prev script"],
     [present |-> TRUE, proposalImage |-> <<>>, sceneDescription |-> "prev script"]}

LayoutArgs ==
    {[story |-> "story", characters |-> r, aspectRatioKey |-> "A4",
      previousPage |-> p, currentCanvasImage |-> i] :
        r \in Rosters, p \in LayoutPreviousPages, i \in {UndefinedStr, RawC}}
    \cup {[story |-> "story", characters |-> <<Aki>>, aspectRatioKey |-> k,
           previousPage |-> NoLayoutPage, currentCanvasImage |-> UndefinedStr] :
            k \in AspectKeys}

LayoutPrompt(a) ==
    LET config == AspectRatioProfile(a.aspectRatioKey)
        aspectRatioValue == IF "value" \in DOMAIN config THEN config.value ELSE "undefined"
        hasCharacters == Len(a.characters) > 0
    IN  <<<<"You are an expert manga storyboard artist.">>,
          <<"3.  **Character Sheets:**",
            IF hasCharacters THEN "Reference sheets for characters are provided."
            ELSE "No character sheets provided.">>>>
        \o (IF a.previousPage.present
            THEN <<<<"4.  **Previous Page Image:**">>>> ELSE <<>>)
        \o <<<<"1.  **Dimensions & Aspect Ratio:**", aspectRatioValue,
               PropText(config, "w"), PropText(config, "h")>>,
             <<"**Character Posing:**",
               IF hasCharacters THEN "Place the characters inside the panels."
               ELSE "Sketch generic characters inside the panels.">>>>
        \o (IF a.previousPage.present THEN <<<<"**Visual Continuity:**">>>> ELSE <<>>)
        \o <<<<"**Story to Illustrate:**", InterpText(a.story)>>>>

LayoutParts(a) ==
    LET characterParts == [i \in 1..Len(a.characters) |->
                             ImagePart(a.characters[i].sheetImage)]
    IN  <<[kind |-> "prompt", blocks |-> LayoutPrompt(a)]>>
        \o (IF TruthyStr(a.currentCanvasImage)
            THEN <<ImagePart(a.currentCanvasImage)>> ELSE <<>>)
        \o (IF a.previousPage.present /\ TruthyStr(a.previousPage.proposalImage)
            THEN <<ImagePart(a.previousPage.proposalImage)>> ELSE <<>>)
        \o characterParts

Call_generateLayoutProposal(c) ==
    /\ calls[c].pc = "idle"
    /\ \E a \in LayoutArgs :
          IF \E i \in 1..Len(a.characters) : a.characters[i].sheetImage = UndefinedStr
          THEN FailBeforeRequest(c, "generateLayoutProposal", a, TypeErrorMatch)
          ELSE Await(c, "generateLayoutProposal", a, LayoutParts(a))
    /\ UNCHANGED codec

Return_generateLayoutProposal(c) ==
    /\ Resumed(c, "generateLayoutProposal")
    /\ LET response == calls[c].response
           imagePartResponse == FindInlineData(response.candidates[1])
           textPartResponse == FindText(response.candidates[1])
       IN  IF NoCandidates(response)
           THEN Finish(c, Thrown(<<"The AI did not return a valid response for the layout proposal.">>))
           ELSE IF imagePartResponse = NoPart
           THEN IF textPartResponse # NoPart
                THEN Finish(c, Thrown(<<"The AI did not return an image. Response: \"",
                                        textPartResponse.text, "\"">>))
                ELSE Finish(c, Thrown(<<"The AI did not return an image for the layout proposal.">>))
           ELSE Finish(c, Returned([proposalImage |->
                           DataUri(imagePartResponse.mimeType, imagePartResponse.data)]))
    /\ UNCHANGED codec

(***************************************************************************)
(* generateCharacterSheet, generateCharacterFromReference                  *)
(***************************************************************************)
CharacterSheetArgs ==
    {[referenceImagesBase64 |-> l, characterName |-> "Aki", colorMode |-> m] :
        l \in ImageLists, m \in {"color", "monochrome"}}

CharacterSheetParts(a) ==
    LET imageParts == ImageParts(a.referenceImagesBase64)
        prompt == <<<<"create a character reference sheet", a.characterName>>,
                    <<"**Style:**", ColorModeText(a.colorMode)>>>>
    IN  <<[kind |-> "prompt", blocks |-> prompt]>> \o imageParts

Call_generateCharacterSheet(c) ==
    /\ calls[c].pc = "idle"
    /\ \E a \in CharacterSheetArgs :
          Await(c, "generateCharacterSheet", a, CharacterSheetParts(a))
    /\ UNCHANGED codec

\* mutant: no candidates is reported like a reply without image
CharacterSheetOutcomeOneFailure(response) ==
    IF NoCandidates(response) \/ FindInlineData(response.candidates[1]) = NoPart
    THEN Thrown(<<"The AI did not return an image for the character sheet.">>)
    ELSE Returned(DataUri(FindInlineData(response.candidates[1]).mimeType,
                          FindInlineData(response.candidates[1]).data))

\* lines 285-302 and 342-359: the same extraction in both operations
CharacterSheetOutcome(response) ==
    LET imagePartResponse == FindInlineData(response.candidates[1])
        textPartResponse == FindText(response.candidates[1])
    IN  IF NoCandidates(response)
        THEN Thrown(<<"The AI did not return a valid response for the character sheet. It may have been blocked.">>)
        ELSE IF imagePartResponse # NoPart
        THEN Returned(DataUri(imagePartResponse.mimeType, imagePartResponse.data))
        ELSE IF textPartResponse # NoPart
        THEN Thrown(<<"The AI did not return an image. Response: \"",
                      textPartResponse.text, "\"">>)
        ELSE Thrown(<<"The AI did not return an image for the character sheet.">>)

Return_generateCharacterSheet(c) ==
    /\ Resumed(c, "generateCharacterSheet")
    /\ Finish(c, CharacterSheetOutcome(calls[c].response))
    /\ UNCHANGED codec

CharacterFromReferenceArgs ==
    {[referenceSheetImagesBase64 |-> l, characterName |-> "Aki",
      characterConcept |-> "a tall knight", colorMode |-> m] :
        l \in ImageLists, m \in {"color", "monochrome"}}

CharacterFromReferenceParts(a) ==
    LET imageParts == ImageParts(a.referenceSheetImagesBase64)
        prompt == <<<<"create a **completely new and original character**", a.characterName>>,
                    <<"**NEW CHARACTER CONCEPT:**", a.characterName, a.characterConcept>>,
                    <<"**Style:**", ColorModeText(a.colorMode)>>>>
    IN  <<[kind |-> "prompt", blocks |-> prompt]>> \o imageParts

Call_generateCharacterFromReference(c) ==
    /\ calls[c].pc = "idle"
    /\ \E a \in CharacterFromReferenceArgs :
          Await(c, "generateCharacterFromReference", a, CharacterFromReferenceParts(a))
    /\ UNCHANGED codec

Return_generateCharacterFromReference(c) ==
    /\ Resumed(c, "generateCharacterFromReference")
    /\ Finish(c, CharacterSheetOutcome(calls[c].response))
    /\ UNCHANGED codec

(***************************************************************************)
(* editCharacterSheet                                                      *)
(***************************************************************************)
EditCharacterSheetArgs ==
    {[sheetImageBase64 |-> i, characterName |-> "Aki", editPrompt |-> e] :
        i \in Images, e \in {"add a scar", ""}}

EditCharacterSheetParts(a) ==
    LET imagePart == ImagePart(a.sheetImageBase64)
        prompt == <<<<"edit a character reference sheet", a.characterName>>,
                    <<"**Edit Request:**", a.editPrompt>>>>
    IN  <<[kind |-> "prompt", blocks |-> prompt], imagePart>>

Call_editCharacterSheet(c) ==
    /\ calls[c].pc = "idle"
    /\ \E a \in EditCharacterSheetArgs :
          Await(c, "editCharacterSheet", a, EditCharacterSheetParts(a))
    /\ UNCHANGED codec

Return_editCharacterSheet(c) ==
    /\ Resumed(c, "editCharacterSheet")
    /\ LET response == calls[c].response
           imagePartResponse == FindInlineData(response.candidates[1])
       IN  IF NoCandidates(response)
           THEN Finish(c, Thrown(<<"The AI did not return a valid response for the character sheet edit.">>))
           ELSE IF imagePartResponse # NoPart
           THEN Finish(c, Returned(DataUri(imagePartResponse.mimeType, imagePartResponse.data)))
           ELSE Finish(c, Thrown(<<"The AI did not return an updated image for the character sheet.">>))
    /\ UNCHANGED codec

(***************************************************************************)
(* colorizeMangaPage                                                       *)
(***************************************************************************)
ColorizeArgs ==
    {[monochromePageBase64 |-> i, characters |-> r] : i \in {PngA, RawC}, r \in Rosters}

\* mutant: the sheet is pushed before the character's reference images
ColorizeCharacterPartsSheetFirst(char) ==
    <<ImagePart(char.sheetImage)>> \o ImageParts(char.referenceImages)

\* per character: every reference image, then the sheet
ColorizeCharacterParts(char) ==
    ImageParts(char.referenceImages) \o <<ImagePart(char.sheetImage)>>

ColorizeParts(a) ==
    LET pagePart == ImagePart(a.monochromePageBase64)
        characterParts == Flatten([i \in 1..Len(a.characters) |-> ColorizeCharacterParts(a.characters[i])])
        prompt == <<<<"You are a professional digital colorist for manga.">>>>
                  \o [i \in 1..Len(a.characters) |->
                        <<"- **", a.characters[i].name,
                          ":** Use the provided full-color reference images">>]
    IN  <<[kind |-> "prompt", blocks |-> prompt], pagePart>> \o characterParts

Call_colorizeMangaPage(c) ==
    /\ calls[c].pc = "idle"
    /\ \E a \in ColorizeArgs :
          IF \E i \in 1..Len(a.characters) : a.characters[i].sheetImage = UndefinedStr
          THEN FailBeforeRequest(c, "colorizeMangaPage", a, TypeErrorMatch)
          ELSE Await(c, "colorizeMangaPage", a, ColorizeParts(a))
    /\ UNCHANGED codec

Return_colorizeMangaPage(c) ==
    /\ Resumed(c, "colorizeMangaPage")
    /\ LET response == calls[c].response
           imagePartResponse == FindInlineData(response.candidates[1])
       IN  IF NoCandidates(response)
           THEN Finish(c, Thrown(<<"The AI did not return a valid response for colorization.">>))
           ELSE IF imagePartResponse # NoPart
           THEN Finish(c, Returned(DataUri(imagePartResponse.mimeType, imagePartResponse.data)))
           ELSE Finish(c, Thrown(<<"The AI did not return a colored image.">>))
    /\ UNCHANGED codec

(***************************************************************************)
(* editMangaPage                                                           *)
(***************************************************************************)
\* hasReferences = FALSE is the argument referenceImagesBase64 omitted
EditMangaPageArgs ==
    {[originalImageBase64 |-> PngA, prompt |-> "fix the hand", maskImageBase64 |-> m,
      hasReferences |-> TRUE, referenceImagesBase64 |-> l] :
        m \in {UndefinedStr, <<>>, JpegB}, l \in ImageLists}
    \cup {[originalImageBase64 |-> RawC, prompt |-> "fix the hand", maskImageBase64 |-> m,
           hasReferences |-> FALSE, referenceImagesBase64 |-> <<>>] :
            m \in {UndefinedStr, <<>>, JpegB}}

EditMangaPagePrompt(a) ==
    <<<<"You are a professional manga artist and expert digital editor.">>>>
    \o (IF TruthyStr(a.maskImageBase64)
        THEN <<<<"**CRITICAL INSTRUCTIONS FOR MASKING:**", "WHITE: re-render",
                 "BLACK: unchanged", "**User's Request:**", a.prompt>>>>
        ELSE <<<<"**User's Request:**", a.prompt,
                 "Apply the requested changes to the entire image as appropriate.">>>>)
    \o (IF a.hasReferences /\ Len(a.referenceImagesBase64) > 0
        THEN <<<<"**IMPORTANT REFERENCE IMAGES:**", ToString(Len(a.referenceImagesBase64))>>>>
        ELSE <<>>)
    \o <<<<"**Final Output:**">>>>

\* mutant: the mask is pushed after the reference images
EditMangaPagePartsMaskLast(a) ==
    LET originalImagePart == ImagePart(a.originalImageBase64)
    IN  <<[kind |-> "prompt", blocks |-> EditMangaPagePrompt(a)], originalImagePart>>
        \o (IF a.hasReferences THEN ImageParts(a.referenceImagesBase64) ELSE <<>>)
        \o (IF TruthyStr(a.maskImageBase64)
            THEN <<ImagePart(a.maskImageBase64)>> ELSE <<>>)

EditMangaPageParts(a) ==
    LET originalImagePart == ImagePart(a.originalImageBase64)
    IN  <<[kind |-> "prompt", blocks |-> EditMangaPagePrompt(a)], originalImagePart>>
        \o (IF TruthyStr(a.maskImageBase64)
            THEN <<ImagePart(a.maskImageBase64)>> ELSE <<>>)
        \o (IF a.hasReferences THEN ImageParts(a.referenceImagesBase64) ELSE <<>>)

Call_editMangaPage(c) ==
    /\ calls[c].pc = "idle"
    /\ \E a \in EditMangaPageArgs :
          Await(c, "editMangaPage", a, EditMangaPageParts(a))
    /\ UNCHANGED codec

Return_editMangaPage(c) ==
    /\ Resumed(c, "editMangaPage")
    /\ LET response == calls[c].response
           imagePartResponse == FindInlineData(response.candidates[1])
           textPartResponse == FindText(response.candidates[1])
       IN  IF NoCandidates(response)
           THEN Finish(c, Thrown(<<"The AI did not return a valid response for the image edit.">>))
           ELSE IF imagePartResponse # NoPart
           THEN Finish(c, Returned(DataUri(imagePartResponse.mimeType, imagePartResponse.data)))
           ELSE IF textPartResponse # NoPart
           THEN Finish(c, Thrown(<<"The AI did not return an image. Response: \"",
                                   textPartResponse.text, "\"">>))
           ELSE Finish(c, Thrown(<<"The AI did not return an edited image.">>))
    /\ UNCHANGED codec

(***************************************************************************)
(* JSON.parse over a text given as lexical chunks: punctuation, the        *)
(* literals null/true/false, number lexemes, and strings as a quote chunk, *)
(* content chunks and a quote chunk.                                       *)
(***************************************************************************)
Q == "\""

JNull == [t |-> "null"]
JBool(b) == [t |-> "boolean", b |-> b]
JNum(lexeme) == [t |-> "number", n |-> lexeme]
JStr(str) == [t |-> "string", s |-> str]
JArr(items) == [t |-> "array", items |-> items]
JObj(members) == [t |-> "object", members |-> members]

NumberLexemes == {"0", "1", "2", "1.5"}

ParseFail == [ok |-> FALSE, val |-> JNull, next |-> 0]
ParseOk(v, n) == [ok |-> TRUE, val |-> v, next |-> n]

At(ts, i) == IF i <= Len(ts) THEN ts[i] ELSE "\\eof"

\* a string literal starting at the quote ts[i]
RECURSIVE ParseStringTail(_, _, _)
ParseStringTail(ts, i, acc) ==
    IF i > Len(ts) THEN ParseFail
    ELSE IF ts[i] = Q THEN ParseOk(JStr(acc), i + 1)
    ELSE IF ts[i] = "\n" THEN ParseFail
    ELSE ParseStringTail(ts, i + 1, acc \o ts[i])

RECURSIVE ParseValue(_, _), ParseElements(_, _, _), ParseMembers(_, _, _)
ParseValue(ts, i) ==
    LET tok == At(ts, i)
    IN  CASE tok = "null" -> ParseOk(JNull, i + 1)
          [] tok = "true" -> ParseOk(JBool(TRUE), i + 1)
          [] tok = "false" -> ParseOk(JBool(FALSE), i + 1)
          [] tok \in NumberLexemes -> ParseOk(JNum(tok), i + 1)
          [] tok = Q -> ParseStringTail(ts, i + 1, "")
          [] tok = "[" ->
                IF At(ts, i + 1) = "]" THEN ParseOk(JArr(<<>>), i + 2)
                ELSE ParseElements(ts, i + 1, <<>>)
          [] tok = "{" ->
                IF At(ts, i + 1) = "}" THEN ParseOk(JObj(<<>>), i + 2)
                ELSE ParseMembers(ts, i + 1, <<>>)
          [] OTHER -> ParseFail

\* In the three definitions below an intermediate result is bound as the
\* element of a singleton set, so that it is computed once wherever the
\* definition is evaluated.

\* value ("," value)* "]"
ParseElements(ts, i, acc) ==
    CHOOSE r \in
        {IF ~v.ok THEN ParseFail
         ELSE IF At(ts, v.next) = "," THEN ParseElements(ts, v.next + 1, Append(acc, v.val))
         ELSE IF At(ts, v.next) = "]" THEN ParseOk(JArr(Append(acc, v.val)), v.next + 1)
         ELSE ParseFail :
            v \in {ParseValue(ts, i)}} : TRUE

\* string ":" value ("," string ":" value)* "}"; a repeated key keeps its
\* last value
ParseMembers(ts, i, acc) ==
    CHOOSE r \in
        {IF ~k.ok \/ At(ts, k.next) # ":" THEN ParseFail
         ELSE CHOOSE rv \in
                {IF ~v.ok THEN ParseFail
                 ELSE CHOOSE rm \in
                        {IF At(ts, v.next) = "," THEN ParseMembers(ts, v.next + 1, more)
                         ELSE IF At(ts, v.next) = "}" THEN ParseOk(JObj(more), v.next + 1)
                         ELSE ParseFail :
                            more \in {[x \in (DOMAIN acc \ {k.val.s}) |-> acc[x]]
                                      @@ (k.val.s :> v.val)}} : TRUE :
                    v \in {ParseValue(ts, k.next + 1)}} : TRUE :
            k \in {IF At(ts, i) = Q THEN ParseStringTail(ts, i + 1, "") ELSE ParseFail}} : TRUE

\* JSON.parse(text): the whole text is one value, else SyntaxError;
\* undefined is converted to the text 'undefined', which is no JSON
JSONParse(text) ==
    IF text = UndefinedStr THEN ParseFail
    ELSE CHOOSE p \in
            {IF r.ok /\ r.next = Len(text) + 1 THEN r ELSE ParseFail :
                r \in {ParseValue(text, 1)}} : TRUE

\* ToBoolean of a parsed value
JsTruthy(v) ==
    CASE v.t \in {"null", "undefined"} -> FALSE
      [] v.t = "boolean" -> v.b
      [] v.t = "number" -> v.n # "0"
      [] v.t = "string" -> v.s # ""
      [] OTHER -> TRUE

JUndefined == [t |-> "undefined"]

\* v[key] for a data property name: only objects carry members
GetMember(v, key) ==
    IF v.t = "object" /\ key \in DOMAIN v.members THEN v.members[key] ELSE JUndefined

(***************************************************************************)
(* JSON texts the backend may send                                         *)
(***************************************************************************)
StrLit(str) == IF str = "" THEN <<Q, Q>> ELSE <<Q, str, Q>>

RECURSIVE JoinComma(_)
JoinComma(texts) ==
    IF texts = <<>> THEN <<>>
    ELSE IF Len(texts) = 1 THEN texts[1]
    ELSE texts[1] \o <<",">> \o JoinComma(Tail(texts))

MemberText(m) == StrLit(m[1]) \o <<":">> \o m[2]
ObjText(members) == <<"{">> \o JoinComma([i \in 1..Len(members) |-> MemberText(members[i])]) \o <<"}">>
ArrText(items) == <<"[">> \o JoinComma(items) \o <<"]">>

PanelTexts ==
    {ObjText(<<<<"panel", <<"1">>>>, <<"description", StrLit("A hero stands.")>>>>),
     ObjText(<<<<"panel", <<"2">>>>, <<"description", StrLit("A hero stands.")>>,
               <<"dialogue", StrLit("")>>>>),
     ObjText(<<<<"panel", <<"1">>>>, <<"description", StrLit("A hero stands.")>>,
               <<"dialogue", StrLit("Aki: Hi!")>>>>),
     ObjText(<<<<"panel", <<"1">>>>>>),
     ObjText(<<<<"panel", StrLit("one")>>, <<"description", StrLit("A hero stands.")>>>>),
     ObjText(<<<<"panel", <<"1.5">>>>, <<"description", <<"null">>>>>>)}

StoryPayloads ==
    {ObjText(sm \o pm) :
        sm \in {<<>>, <<<<"summary", StrLit("Test")>>>>, <<<<"summary", StrLit("")>>>>,
                <<<<"summary", <<"1">>>>>>, <<<<"summary", <<"null">>>>>>},
        pm \in {<<>>, <<<<"panels", <<"null">>>>>>, <<<<"panels", StrLit("none")>>>>}
               \cup {<<<<"panels", ArrText(ps)>>>> : ps \in SeqsUpTo(PanelTexts, MaxPanels)}}
    \cup {<<"null">>, <<"[", "]">>, StrLit("I cannot help with that."),
          <<"I cannot help with that.">>, <<"{", Q, "summary", Q, ":">>, <<>>,
          UndefinedStr}

AnalysisPayloads ==
    {ObjText(<<<<"analysis", StrLit("The page matches the plan.")>>>> \o hm \o cm) :
        hm \in {<<>>, <<<<"has_discrepancies", <<"true">>>>>>,
                <<<<"has_discrepancies", <<"false">>>>>>,
                <<<<"has_discrepancies", StrLit("yes")>>>>},
        cm \in {<<>>, <<<<"correction_prompt", StrLit("")>>>>,
                <<<<"correction_prompt", StrLit("Redraw Aki in the top panel.")>>>>,
                <<<<"correction_prompt", <<"null">>>>>>}}
    \cup {<<"null">>, <<"[", "]">>, <<"{", "}">>, <<"The page looks fine.">>,
          <<"{", Q, "analysis", Q>>, <<>>, UndefinedStr}

WorldviewTexts == {<<"A floating city ruled by cartographers.">>, <<>>, UndefinedStr}

(***************************************************************************)
(* generateWorldview                                                       *)
(***************************************************************************)
\* c.description || 'No description provided.'
DescriptionText(char) ==
    IF Truthy(char.description) THEN char.description ELSE "No description provided."

WorldviewArgs == {[characters |-> r] : r \in {<<>>, <<Aki>>, <<Rin, Zed>>}}

WorldviewPrompt(a) ==
    <<<<"You are a creative world-builder and storyteller.">>>>
    \o [i \in 1..Len(a.characters) |->
          <<"- **", a.characters[i].name, ":** ", DescriptionText(a.characters[i])>>]

Call_generateWorldview(c) ==
    /\ calls[c].pc = "idle"
    /\ \E a \in WorldviewArgs :
          Await(c, "generateWorldview", a,
                <<[kind |-> "prompt", blocks |-> WorldviewPrompt(a)]>>)
    /\ UNCHANGED codec

Return_generateWorldview(c) ==
    /\ Resumed(c, "generateWorldview")
    /\ Finish(c, Returned(calls[c].response.text))
    /\ UNCHANGED codec

(***************************************************************************)
(* generateDetailedStorySuggestion                                         *)
(***************************************************************************)
StoryPages ==
    {Page(PngA, "page one script"), Page(JpegB, "page two script"),
     Page(UndefinedStr, "page three script"), Page(RawC, "")}

\* hasPreviousPages = FALSE is the argument previousPages omitted
StoryArgs ==
    {[premise |-> "", worldview |-> "", characters |-> <<>>,
      hasPreviousPages |-> TRUE, previousPages |-> ps] :
        ps \in SeqsUpTo(StoryPages, MaxPages)}
    \cup {[premise |-> pr, worldview |-> w, characters |-> r,
           hasPreviousPages |-> FALSE, previousPages |-> <<>>] :
            pr \in {"", "the duel"}, w \in {"", "a floating city"},
            r \in {<<>>, <<Aki>>, <<Rin, Zed>>}}

\* mutant: only the image is required
StoryPageIncludedImageOnly(page) == TruthyStr(page.generatedImage)

\* page.generatedImage && page.sceneDescription
StoryPageIncluded(page) ==
    TruthyStr(page.generatedImage) /\ Truthy(page.sceneDescription)

\* the text appended and the part pushed by one forEach iteration
StoryPageBlock(page, index) ==
    IF StoryPageIncluded(page)
    THEN <<<<"**[Previous Page ", ToString(index + 1), "]**", "*Script:* ",
             page.sceneDescription, "*Image:* [Image ", ToString(index + 1),
             " is attached]">>>>
    ELSE <<>>

StoryPagePart(page) ==
    IF StoryPageIncluded(page) THEN <<ImagePart(page.generatedImage)>> ELSE <<>>

StoryPrompt(a) ==
    <<<<"You are a creative manga scriptwriter.">>>>
    \o (IF Truthy(a.worldview)
        THEN <<<<"**IMPORTANT WORLDVIEW CONTEXT:**", a.worldview>>>> ELSE <<>>)
    \o (IF Len(a.characters) > 0
        THEN <<<<"**CHARACTER PROFILES:**">>>>
             \o [i \in 1..Len(a.characters) |->
                   <<"- **", a.characters[i].name, ":** ", DescriptionText(a.characters[i])>>]
        ELSE <<>>)
    \o (IF a.hasPreviousPages /\ Len(a.previousPages) > 0
        THEN <<<<"**PREVIOUS PAGE CONTEXT:**">>>>
             \o Flatten([i \in 1..Len(a.previousPages) |->
                           StoryPageBlock(a.previousPages[i], i - 1)])
        ELSE <<>>)
    \o (IF Truthy(a.premise)
        THEN <<<<"**USER'S PREMISE FOR THE NEW PAGE:**", a.premise>>>>
        ELSE <<<<"The user has not provided a specific premise.">>>>)
    \o <<<<"Break down the story into 2-4 panels.">>>>

StoryParts(a) ==
    LET previousPagesContent ==
            IF a.hasPreviousPages /\ Len(a.previousPages) > 0
            THEN Flatten([i \in 1..Len(a.previousPages) |-> StoryPagePart(a.previousPages[i])])
            ELSE <<>>
    IN  <<[kind |-> "prompt", blocks |-> StoryPrompt(a)]>> \o previousPagesContent

Call_generateDetailedStorySuggestion(c) ==
    /\ calls[c].pc = "idle"
    /\ \E a \in StoryArgs :
          Await(c, "generateDetailedStorySuggestion", a, StoryParts(a))
    /\ UNCHANGED codec

\* mutant: panels is not looked at
StoryBasicValidationSummaryOnly(suggestion) ==
    JsTruthy(suggestion) /\ JsTruthy(GetMember(suggestion, "summary"))

\* suggestion && suggestion.summary && Array.isArray(suggestion.panels)
StoryBasicValidation(suggestion) ==
    /\ JsTruthy(suggestion)
    /\ JsTruthy(GetMember(suggestion, "summary"))
    /\ GetMember(suggestion, "panels").t = "array"

\* the try block; whatever it throws is replaced in the catch block
StoryOutcome(response) ==
    LET parsed == JSONParse(response.text)
    IN  IF parsed.ok /\ StoryBasicValidation(parsed.val)
        THEN Returned(parsed.val)
        ELSE Thrown(<<"The AI returned an invalid story structure. Please try again.">>)

Return_generateDetailedStorySuggestion(c) ==
    /\ Resumed(c, "generateDetailedStorySuggestion")
    /\ Finish(c, StoryOutcome(calls[c].response))
    /\ UNCHANGED codec

(***************************************************************************)
(* analyzeAndSuggestCorrections                                            *)
(***************************************************************************)
AnalysisArgs ==
    {[panelLayoutImage |-> l, generatedImage |-> g, sceneDescription |-> "scene script",
      characters |-> r] :
        l \in {PngA, RawC}, g \in {JpegB}, r \in {<<>>, <<Aki, Rin>>}}

AnalysisParts(a) ==
    LET layoutPart == ImagePart(a.panelLayoutImage)
        generatedPart == ImagePart(a.generatedImage)
        prompt == <<<<"You are a meticulous Quality Assurance assistant">>,
                    <<"**Scene Script:**", InterpText(a.sceneDescription)>>>>
                  \o [i \in 1..Len(a.characters) |-> <<"- ", a.characters[i].name>>]
    IN  <<[kind |-> "prompt", blocks |-> prompt], layoutPart, generatedPart>>

Call_analyzeAndSuggestCorrections(c) ==
    /\ calls[c].pc = "idle"
    /\ \E a \in AnalysisArgs :
          Await(c, "analyzeAndSuggestCorrections", a, AnalysisParts(a))
    /\ UNCHANGED codec

\* JSON.parse(jsonText) as AnalysisResult: the cast checks nothing
AnalysisOutcome(response) ==
    LET parsed == JSONParse(response.text)
    IN  IF parsed.ok THEN Returned(parsed.val)
        ELSE Thrown(<<"The AI returned an invalid analysis structure.">>)

Return_analyzeAndSuggestCorrections(c) ==
    /\ Resumed(c, "analyzeAndSuggestCorrections")
    /\ Finish(c, AnalysisOutcome(calls[c].response))
    /\ UNCHANGED codec

(***************************************************************************)
(* The backend                                                             *)
(***************************************************************************)
ImageOps ==
    {"generateLayoutProposal", "generateCharacterSheet", "generateCharacterFromReference",
     "editCharacterSheet", "generateMangaPage", "colorizeMangaPage", "editMangaPage"}

ResponsesFor(opName) ==
    CASE opName \in ImageOps -> ImageResponses
      [] opName = "generateWorldview" -> {[text |-> t] : t \in WorldviewTexts}
      [] opName = "generateDetailedStorySuggestion" -> {[text |-> t] : t \in StoryPayloads}
      [] opName = "analyzeAndSuggestCorrections" -> {[text |-> t] : t \in AnalysisPayloads}

\* the pending generateContent promise is fulfilled
BackendRespond(c) ==
    /\ calls[c].pc = "awaiting"
    /\ \E r \in ResponsesFor(calls[c].op) :
          calls' = [calls EXCEPT ![c].pc = "responded", ![c].response = r]
    /\ UNCHANGED codec

\* mutant: a rejected request is issued once more
BackendRejectRetry(c) ==
    /\ calls[c].pc = "awaiting"
    /\ calls[c].sent < 2
    /\ calls' = [calls EXCEPT ![c].sent = @ + 1]
    /\ UNCHANGED codec

\* the pending promise is rejected (transport or API error); no operation
\* catches around its await, so the rejection leaves the call as it is
BackendReject(c) ==
    /\ calls[c].pc = "awaiting"
    /\ Finish(c, Thrown(<<"ApiError">>))
    /\ UNCHANGED codec

(***************************************************************************)
(* Specification                                                           *)
(***************************************************************************)
IdleCodec == [stage |-> "idle", mime |-> UndefinedStr, data |-> UndefinedStr,
              str |-> UndefinedStr, part |-> NoPart]

Init ==
    /\ calls = [c \in CallIds |-> IdleCall]
    /\ codec = IdleCodec

Next ==
    \E c \in CallIds :
        \/ Call_generateWorldview(c)
        \/ Return_generateWorldview(c)
        \/ Call_generateDetailedStorySuggestion(c)
        \/ Return_generateDetailedStorySuggestion(c)
        \/ Call_generateLayoutProposal(c)
        \/ Return_generateLayoutProposal(c)
        \/ Call_generateCharacterSheet(c)
        \/ Return_generateCharacterSheet(c)
        \/ Call_generateCharacterFromReference(c)
        \/ Return_generateCharacterFromReference(c)
        \/ Call_editCharacterSheet(c)
        \/ Return_editCharacterSheet(c)
        \/ Call_generateMangaPage(c)
        \/ Return_generateMangaPage(c)
        \/ Call_colorizeMangaPage(c)
        \/ Return_colorizeMangaPage(c)
        \/ Call_editMangaPage(c)
        \/ Return_editMangaPage(c)
        \/ Call_analyzeAndSuggestCorrections(c)
        \/ Return_analyzeAndSuggestCorrections(c)
        \/ BackendRespond(c)
        \/ BackendReject(c)

Spec == Init /\ [][Next]_vars

(***************************************************************************)
(* Concurrent specification: two invocations in flight at once. Each       *)
(* operation is the same action as above; the inputs and the responses are *)
(* narrowed to a few per operation.                                        *)
(***************************************************************************)
ConcurrentIds == {"c1", "c2"}

ConcurrentArgs(a) ==
    CASE "panelLayoutImageBase64" \in DOMAIN a ->
            /\ Len(a.characters) = 1
            /\ a.panelLayoutImageBase64 = PngA
            /\ a.previousPage \in {NoPage, Page(JpegB, "prev script")}
            /\ a.colorMode = "color"
            /\ ~a.generateEmptyBubbles
      [] "aspectRatioKey" \in DOMAIN a ->
            /\ a.characters = <<Aki>>
            /\ a.aspectRatioKey \in {"A4", "Square (1:1)"}
      [] "premise" \in DOMAIN a -> a.hasPreviousPages /\ Len(a.previousPages) <= 1
      [] "referenceImagesBase64" \in DOMAIN a /\ "characterName" \in DOMAIN a ->
            Len(a.referenceImagesBase64) = 1 /\ a.colorMode = "color"
      [] "referenceSheetImagesBase64" \in DOMAIN a ->
            Len(a.referenceSheetImagesBase64) = 1 /\ a.colorMode = "color"
      [] "editPrompt" \in DOMAIN a -> a.editPrompt = "add a scar"
      [] "monochromePageBase64" \in DOMAIN a ->
            Len(a.characters) = 1 /\ a.monochromePageBase64 = PngA
      [] "originalImageBase64" \in DOMAIN a -> ~a.hasReferences
      [] "panelLayoutImage" \in DOMAIN a -> a.characters = <<>>
      [] OTHER -> TRUE

ConcurrentResponses(opName) ==
    CASE opName \in ImageOps ->
            {[hasCandidates |-> FALSE, candidates |-> <<>>],
             [hasCandidates |-> TRUE, candidates |-> <<<<TextPart("I cannot draw that.")>>>>],
             [hasCandidates |-> TRUE,
              candidates |-> <<<<InlinePart(<<"image/", "png">>, <<"XXXX">>)>>>>],
             [hasCandidates |-> TRUE,
              candidates |-> <<<<TextPart("Here is your page."),
                                 InlinePart(<<"image/", "jpeg">>, <<"YYYY">>)>>>>]}
      [] opName = "generateWorldview" -> {[text |-> t] : t \in WorldviewTexts}
      [] opName = "generateDetailedStorySuggestion" ->
            {[text |-> t] : t \in
                {UndefinedStr, ObjText(<<<<"summary", StrLit("Test")>>>>),
                 ObjText(<<<<"summary", StrLit("Test")>>, <<"panels", ArrText(<<>>)>>>>)}}
      [] opName = "analyzeAndSuggestCorrections" ->
            {[text |-> t] : t \in
                {UndefinedStr, <<"The page looks fine.">>,
                 ObjText(<<<<"analysis", StrLit("The page matches the plan.")>>,
                           <<"has_discrepancies", <<"false">>>>,
                           <<"correction_prompt", StrLit("")>>>>)}}

InitConcurrent ==
    /\ calls = [c \in ConcurrentIds |-> IdleCall]
    /\ codec = IdleCodec

NextConcurrent ==
    \E c \in ConcurrentIds :
        \/ Call_generateWorldview(c) /\ ConcurrentArgs(calls'[c].args)
        \/ Return_generateWorldview(c)
        \/ Call_generateDetailedStorySuggestion(c) /\ ConcurrentArgs(calls'[c].args)
        \/ Return_generateDetailedStorySuggestion(c)
        \/ Call_generateLayoutProposal(c) /\ ConcurrentArgs(calls'[c].args)
        \/ Return_generateLayoutProposal(c)
        \/ Call_generateCharacterSheet(c) /\ ConcurrentArgs(calls'[c].args)
        \/ Return_generateCharacterSheet(c)
        \/ Call_generateCharacterFromReference(c) /\ ConcurrentArgs(calls'[c].args)
        \/ Return_generateCharacterFromReference(c)
        \/ Call_editCharacterSheet(c) /\ ConcurrentArgs(calls'[c].args)
        \/ Return_editCharacterSheet(c)
        \/ Call_generateMangaPage(c) /\ ConcurrentArgs(calls'[c].args)
        \/ Return_generateMangaPage(c)
        \/ Call_colorizeMangaPage(c) /\ ConcurrentArgs(calls'[c].args)
        \/ Return_colorizeMangaPage(c)
        \/ Call_editMangaPage(c) /\ ConcurrentArgs(calls'[c].args)
        \/ Return_editMangaPage(c)
        \/ Call_analyzeAndSuggestCorrections(c) /\ ConcurrentArgs(calls'[c].args)
        \/ Return_analyzeAndSuggestCorrections(c)
        \/ BackendRespond(c) /\ calls'[c].response \in ConcurrentResponses(calls[c].op)
        \/ BackendReject(c)

SpecConcurrent == InitConcurrent /\ [][NextConcurrent]_vars

(***************************************************************************)
(* Scheduling: once the generateContent promise is fulfilled, the          *)
(* continuation of the async function is run by the event loop.            *)
(***************************************************************************)
Resume(c) ==
    \/ Return_generateWorldview(c)
    \/ Return_generateDetailedStorySuggestion(c)
    \/ Return_generateLayoutProposal(c)
    \/ Return_generateCharacterSheet(c)
    \/ Return_generateCharacterFromReference(c)
    \/ Return_editCharacterSheet(c)
    \/ Return_generateMangaPage(c)
    \/ Return_colorizeMangaPage(c)
    \/ Return_editMangaPage(c)
    \/ Return_analyzeAndSuggestCorrections(c)

\* one invocation, on the narrowed inputs and responses
NextLive ==
    \E c \in CallIds :
        \/ Call_generateWorldview(c) /\ ConcurrentArgs(calls'[c].args)
        \/ Return_generateWorldview(c)
        \/ Call_generateDetailedStorySuggestion(c) /\ ConcurrentArgs(calls'[c].args)
        \/ Return_generateDetailedStorySuggestion(c)
        \/ Call_generateLayoutProposal(c) /\ ConcurrentArgs(calls'[c].args)
        \/ Return_generateLayoutProposal(c)
        \/ Call_generateCharacterSheet(c) /\ ConcurrentArgs(calls'[c].args)
        \/ Return_generateCharacterSheet(c)
        \/ Call_generateCharacterFromReference(c) /\ ConcurrentArgs(calls'[c].args)
        \/ Return_generateCharacterFromReference(c)
        \/ Call_editCharacterSheet(c) /\ ConcurrentArgs(calls'[c].args)
        \/ Return_editCharacterSheet(c)
        \/ Call_generateMangaPage(c) /\ ConcurrentArgs(calls'[c].args)
        \/ Return_generateMangaPage(c)
        \/ Call_colorizeMangaPage(c) /\ ConcurrentArgs(calls'[c].args)
        \/ Return_colorizeMangaPage(c)
        \/ Call_editMangaPage(c) /\ ConcurrentArgs(calls'[c].args)
        \/ Return_editMangaPage(c)
        \/ Call_analyzeAndSuggestCorrections(c) /\ ConcurrentArgs(calls'[c].args)
        \/ Return_analyzeAndSuggestCorrections(c)
        \/ BackendRespond(c) /\ calls'[c].response \in ConcurrentResponses(calls[c].op)
        \/ BackendReject(c)

SpecLive == Init /\ [][NextLive]_vars /\ \A c \in CallIds : WF_vars(Resume(c))

(***************************************************************************)
(* Codec specification: encode a (mediaType, payload) pair and decode it,  *)
(* or decode an arbitrary string.                                          *)
(***************************************************************************)
PairAlphabet == {"image/", "jpeg", ";", ",", "\n", "AAAA"}
StrAlphabet == {"data:", "image/", "text/", "jpeg", ";", "base64", ",", "\n"}

InitCodec ==
    /\ calls = [c \in CallIds |-> IdleCall]
    /\ \/ \E m \in SeqsUpTo(PairAlphabet, MaxMimeLen), d \in SeqsUpTo(PairAlphabet, MaxDataLen) :
          codec = [stage |-> "pair", mime |-> m, data |-> d,
                   str |-> UndefinedStr, part |-> NoPart]
       \/ \E s \in SeqsUpTo(StrAlphabet, MaxStrLen) :
          codec = [stage |-> "encoded", mime |-> UndefinedStr, data |-> UndefinedStr,
                   str |-> s, part |-> NoPart]

CodecEncode ==
    /\ codec.stage = "pair"
    /\ codec' = [codec EXCEPT !.stage = "encoded",
                              !.str = DataUri(codec.mime, codec.data)]
    /\ UNCHANGED calls

CodecDecode ==
    /\ codec.stage = "encoded"
    /\ codec' = [codec EXCEPT !.stage = "decoded", !.part = ImagePart(codec.str)]
    /\ UNCHANGED calls

NextCodec == CodecEncode \/ CodecDecode

SpecCodec == InitCodec /\ [][NextCodec]_vars

(***************************************************************************)
(* Failure kinds, by the message each throw statement carries              *)
(***************************************************************************)
\* "no candidates" messages (lines 232, 286, 343, 394, 494, 564, 644)
EmptyResponseMessages ==
    {"The AI did not return a valid response for the layout proposal.",
     "The AI did not return a valid response for the character sheet. It may have been blocked.",
     "The AI did not return a valid response for the character sheet edit.",
     "The AI did not return a valid response. It may have been blocked. ",
     "The AI did not return a valid response for colorization.",
     "The AI did not return a valid response for the image edit."}

\* "no image among the parts" messages (lines 240-242, 299-302, 356-359,
\* 402, 508, 572, 654-657)
MissingImageMessages ==
    {"The AI did not return an image. Response: \"",
     "The AI did not return an image for the layout proposal.",
     "The AI did not return an image for the character sheet.",
     "The AI did not return an updated image for the character sheet.",
     "The AI did not return an image. It might have refused the request. ",
     "The AI did not return a colored image.",
     "The AI did not return an edited image."}

\* "invalid structure" messages (lines 142, 738)
InvalidStructureMessages ==
    {"The AI returned an invalid story structure. Please try again.",
     "The AI returned an invalid analysis structure."}

\* a call of opName that got a response and ran to its end
Completed(c, opName) ==
    /\ calls[c].pc = "done"
    /\ calls[c].op = opName
    /\ calls[c].response # NoResponse

\* a call of opName whose request was assembled and issued
Requested(c, opName) == calls[c].op = opName /\ calls[c].sent = 1

Attachments(c) == Tail(calls[c].request)
PromptBlocks(c) == calls[c].request[1].blocks

FirstParts(c) == calls[c].response.candidates[1]

HasInline(parts) == \E i \in 1..Len(parts) : parts[i].kind = "inlineData"
NonEmptyTexts(parts) ==
    {parts[i].text : i \in {j \in 1..Len(parts) : parts[j].kind = "text" /\ parts[j].text # ""}}

(***************************************************************************)
(* Properties                                                              *)
(***************************************************************************)
\* C1: in every image-producing operation, a response whose first candidate
\* has a text part and no inline-binary part ends in the missing-image
\* failure, and the failure message contains that text verbatim.
C1_TextOnlyEmbedsText ==
    \A c \in CallIds : \A o \in ImageOps :
        (/\ Completed(c, o)
         /\ ~NoCandidates(calls[c].response)
         /\ ~HasInline(FirstParts(c))
         /\ NonEmptyTexts(FirstParts(c)) # {})
        => /\ calls[c].outcome.status = "thrown"
           /\ calls[c].outcome.error[1] \in MissingImageMessages
           /\ \E k \in 1..Len(calls[c].outcome.error) :
                 calls[c].outcome.error[k] \in NonEmptyTexts(FirstParts(c))

\* C2: in every image-producing operation, a response with zero candidates
\* ends in the empty-response failure, whatever else the call was given, and
\* a response with candidates but no image in the first one ends in a
\* failure of another kind (no message is shared by the two kinds).
C2_EmptyResponseDistinct ==
    /\ EmptyResponseMessages \cap MissingImageMessages = {}
    /\ \A c \in CallIds : \A o \in ImageOps :
          /\ (Completed(c, o) /\ NoCandidates(calls[c].response))
             => /\ calls[c].outcome.status = "thrown"
                /\ calls[c].outcome.error[1] \in EmptyResponseMessages
          /\ (Completed(c, o) /\ ~NoCandidates(calls[c].response)
                /\ ~HasInline(FirstParts(c)))
             => /\ calls[c].outcome.status = "thrown"
                /\ calls[c].outcome.error[1] \in MissingImageMessages

C2_Witness ==
    \E c \in CallIds :
        /\ Completed(c, "colorizeMangaPage")
        /\ calls[c].response.hasCandidates
        /\ calls[c].response.candidates = <<>>
        /\ calls[c].outcome.status = "thrown"

\* C3: generateDetailedStorySuggestion ends in the invalid-structure
\* failure, returning nothing, whenever the response text is no JSON or is a
\* JSON object without a panels member.
C3_RejectsUnparseableOrNoPanels ==
    \A c \in CallIds :
        LET parsed == JSONParse(calls[c].response.text)
        IN  (/\ Completed(c, "generateDetailedStorySuggestion")
             /\ \/ ~parsed.ok
                \/ parsed.val.t = "object" /\ "panels" \notin DOMAIN parsed.val.members)
            => /\ calls[c].outcome.status = "thrown"
               /\ calls[c].outcome.error[1] \in InvalidStructureMessages
               /\ "value" \notin DOMAIN calls[c].outcome

\* the payload {"summary":"Test"} was received and rejected
C3_Witness ==
    \E c \in CallIds :
        /\ Completed(c, "generateDetailedStorySuggestion")
        /\ calls[c].response.text = <<"{", Q, "summary", Q, ":", Q, "Test", Q, "}">>
        /\ calls[c].outcome.status = "thrown"

\* C4: every result analyzeAndSuggestCorrections returns has an empty
\* correction_prompt when has_discrepancies is false and a non-empty one
\* when has_discrepancies is true.
C4_AnalysisResultInvariant ==
    \A c \in CallIds :
        (Completed(c, "analyzeAndSuggestCorrections") /\ calls[c].outcome.status = "returned")
        => LET v == calls[c].outcome.value
               flag == GetMember(v, "has_discrepancies")
               prompt == GetMember(v, "correction_prompt")
           IN  /\ flag = JBool(FALSE) => prompt = JStr("")
               /\ flag = JBool(TRUE) => (prompt.t = "string" /\ prompt # JStr(""))

\* the previous-page image counts as supplied when the page is given and its
\* image is neither undefined nor ''
PriorImageSupplied(page) ==
    page.present /\ page.generatedImage # UndefinedStr /\ page.generatedImage # <<>>

\* C5: the attachments of a generateMangaPage request are the previous-page
\* image (only when a prior page with an image is supplied), then each
\* character's sheet image in roster order, then the panel-layout image.
C5_MangaPageAttachmentOrder ==
    \A c \in CallIds :
        Requested(c, "generateMangaPage")
        => LET a == calls[c].args
               atts == Attachments(c)
               n == Len(a.characters)
               off == IF PriorImageSupplied(a.previousPage) THEN 1 ELSE 0
           IN  /\ Len(atts) = off + n + 1
               /\ off = 1 => atts[1] = ImagePart(a.previousPage.generatedImage)
               /\ \A i \in 1..n : atts[off + i] = ImagePart(a.characters[i].sheetImage)
               /\ atts[off + n + 1] = ImagePart(a.panelLayoutImageBase64)

\* a request with a prior page image and two different characters
C5_Witness ==
    \E c \in CallIds :
        /\ Requested(c, "generateMangaPage")
        /\ PriorImageSupplied(calls[c].args.previousPage)
        /\ calls[c].args.characters = <<Rin, Aki>>
        /\ Len(Attachments(c)) = 4

\* a prior page counts only when both its image and its script are present
HasImageAndScript(page) ==
    /\ page.generatedImage # UndefinedStr /\ page.generatedImage # <<>>
    /\ page.sceneDescription # undefined /\ page.sceneDescription # ""

\* the per-page text blocks of a story prompt, in prompt order
PreviousPageBlocks(c) ==
    SelectSeq(PromptBlocks(c), LAMBDA b : b[1] = "**[Previous Page ")

\* C6: in generateDetailedStorySuggestion a prior page without image or
\* without script adds neither a text block nor an attachment, and the pages
\* that are included appear in the text and in the attachments in their
\* original relative order.
C6_PreviousPageFiltering ==
    \A c \in CallIds :
        Requested(c, "generateDetailedStorySuggestion")
        => LET pages == calls[c].args.previousPages
               inc == {i \in 1..Len(pages) : HasImageAndScript(pages[i])}
               rank(i) == Cardinality({j \in inc : j <= i})
               atts == Attachments(c)
               blocks == PreviousPageBlocks(c)
           IN  /\ Len(atts) = Cardinality(inc)
               /\ Len(blocks) = Cardinality(inc)
               /\ \A i \in inc :
                     /\ atts[rank(i)] = ImagePart(pages[i].generatedImage)
                     /\ blocks[rank(i)][5] = pages[i].sceneDescription

\* an excluded page precedes an included one
C6_Witness ==
    \E c \in CallIds :
        /\ Requested(c, "generateDetailedStorySuggestion")
        /\ Len(calls[c].args.previousPages) = 2
        /\ ~HasImageAndScript(calls[c].args.previousPages[1])
        /\ HasImageAndScript(calls[c].args.previousPages[2])
        /\ Len(Attachments(c)) = 1

\* an image media type: image/ and a subtype of token characters; a base64
\* payload: base64 characters only (letters, digits, +, /, =)
SubtypeChunks == {"jpeg", "AAAA"}
Base64Chunks == {"jpeg", "AAAA", "image/"}
ValidMediaType(m) ==
    /\ Len(m) >= 2
    /\ m[1] = "image/"
    /\ \A i \in 2..Len(m) : m[i] \in SubtypeChunks
ValidPayload(d) == d # UndefinedStr /\ \A i \in 1..Len(d) : d[i] \in Base64Chunks

\* C7: for every valid (mediaType, payload) pair, decoding the encoded image
\* data:<mediaType>;base64,<payload> gives back the same mediaType and the
\* same payload.
C7_CodecRoundTrip ==
    (codec.stage = "decoded" /\ ValidMediaType(codec.mime) /\ ValidPayload(codec.data))
    => /\ codec.part.mimeType = codec.mime
       /\ codec.part.data = codec.data

\* a valid pair with a non-empty payload went through encode and decode
C7_Witness ==
    /\ codec.stage = "decoded"
    /\ codec.mime = <<"image/", "jpeg">>
    /\ codec.data = <<"AAAA", "image/">>
    /\ codec.part.data = <<"AAAA", "image/">>

\* data:<type>;base64, at the start of the string, <type> being one or more
\* chunks free of ';', ',' and line breaks
WellFormedPrefix(str) ==
    /\ Len(str) >= 5
    /\ str[1] = "data:"
    /\ \E j \in 3..(Len(str) - 2) :
          /\ str[j] = ";" /\ str[j + 1] = "base64" /\ str[j + 2] = ","
          /\ \A k \in 2..(j - 1) : str[k] \notin {";", ",", "\n", "data:", "base64"}

\* C8: decoding a string that lacks a well-formed data:<type>;base64, prefix
\* does not raise and gives the media type image/png.
C8_FallbackWithoutPrefix ==
    (codec.stage = "decoded" /\ codec.mime = UndefinedStr /\ ~WellFormedPrefix(codec.str))
    => /\ codec.part.kind = "inlineData"
       /\ codec.part.mimeType = <<"image/", "png">>

\* the (width, height, ratio) each preset key stands for
PresetTriples ==
    [key \in {"A4", "Portrait (3:4)", "Square (1:1)", "Widescreen (16:9)"} |->
        CASE key = "A4" -> <<"595", "842", "210:297">>
          [] key = "Portrait (3:4)" -> <<"600", "800", "3:4">>
          [] key = "Square (1:1)" -> <<"800", "800", "1:1">>
          [] key = "Widescreen (16:9)" -> <<"1280", "720", "16:9">>]

\* the (width, height, ratio) a layout prompt states
StatedTriple(c) ==
    LET b == SelectSeq(PromptBlocks(c),
                       LAMBDA x : x[1] = "1.  **Dimensions & Aspect Ratio:**")[1]
    IN  <<b[3], b[4], b[2]>>

\* C9: generateLayoutProposal uses the fixed triple of each of the four
\* preset keys, and the A4 triple (595, 842, "210:297") for every other key.
C9_AspectRatioLookup ==
    \A c \in CallIds :
        Requested(c, "generateLayoutProposal")
        => LET key == calls[c].args.aspectRatioKey
           IN  StatedTriple(c) = IF key \in DOMAIN PresetTriples THEN PresetTriples[key]
                                 ELSE <<"595", "842", "210:297">>

\* a parsed payload of the StorySuggestion shape with no dialogue: a string
\* summary and panels whose elements have an integer panel and a string
\* description
IsInteger(v) == v.t = "number" /\ v.n \in {"0", "1", "2"}
PanelWithoutDialogue(p) ==
    /\ p.t = "object"
    /\ IsInteger(GetMember(p, "panel"))
    /\ GetMember(p, "description").t = "string"
    /\ GetMember(p, "dialogue") \in {JUndefined, JStr("")}
StoryShape(v) ==
    /\ v.t = "object"
    /\ GetMember(v, "summary").t = "string"
    /\ GetMember(v, "panels").t = "array"
    /\ \A i \in 1..Len(GetMember(v, "panels").items) :
          PanelWithoutDialogue(GetMember(v, "panels").items[i])

\* C10: generateDetailedStorySuggestion returns, unaltered, every payload
\* that is a JSON object of the StorySuggestion shape with dialogue absent
\* or empty.
C10_ReturnsConformingPayload ==
    \A c \in CallIds :
        LET parsed == JSONParse(calls[c].response.text)
        IN  (Completed(c, "generateDetailedStorySuggestion") /\ parsed.ok
                /\ StoryShape(parsed.val))
            => calls[c].outcome = Returned(parsed.val)

\* the image a successful result of an image-producing operation carries
ResultImage(c) ==
    CASE calls[c].op = "generateMangaPage" -> calls[c].outcome.value.image
      [] calls[c].op = "generateLayoutProposal" -> calls[c].outcome.value.proposalImage
      [] OTHER -> calls[c].outcome.value

\* data:<mediaType>;base64,<payload> of an inline-binary part
EncodedImageOf(part) ==
    <<"data:">> \o part.mimeType \o <<";", "base64", ",">> \o part.data

\* C11: every successful result of the seven image-producing operations
\* carries the encoded image of an inline-binary part of the response's first
\* candidate, and a response without an inline-binary part (no candidates, no
\* parts, or text only) never ends in a successful result.
C11_NoSuccessWithoutImage ==
    \A c \in CallIds : \A o \in ImageOps :
        /\ (Completed(c, o) /\ calls[c].outcome.status = "returned")
           => /\ ~NoCandidates(calls[c].response)
              /\ \E i \in 1..Len(FirstParts(c)) :
                    /\ FirstParts(c)[i].kind = "inlineData"
                    /\ ResultImage(c) = EncodedImageOf(FirstParts(c)[i])
        /\ (Completed(c, o)
              /\ (NoCandidates(calls[c].response) \/ ~HasInline(FirstParts(c))))
           => calls[c].outcome.status = "thrown"

\* a reply with a text part and then an image part was turned into a result
C11_Witness ==
    \E c \in CallIds :
        /\ Completed(c, "editCharacterSheet")
        /\ calls[c].response.hasCandidates
        /\ calls[c].response.candidates =
              <<<<TextPart("Here is your page."), InlinePart(<<"image/", "png">>, <<"XXXX">>)>>>>
        /\ calls[c].outcome = Returned(<<"data:", "image/", "png", ";", "base64", ",", "XXXX">>)


StructuredTextOps ==
    {"generateWorldview", "generateDetailedStorySuggestion", "analyzeAndSuggestCorrections"}

\* C12: generateWorldview, generateDetailedStorySuggestion and
\* analyzeAndSuggestCorrections fail whenever the response has no text
\* payload (response.text undefined, as with zero candidates, or empty); no
\* value is returned from such a response.
C12_NoTextPayloadFails ==
    \A c \in CallIds : \A o \in StructuredTextOps :
        (Completed(c, o) /\ calls[c].response.text \in {UndefinedStr, <<>>})
        => /\ calls[c].outcome.status = "thrown"
           /\ "value" \notin DOMAIN calls[c].outcome


\* C13: an invocation issues at most one backend request: one when its
\* request is assembled, none when assembling it throws, and no further one
\* after the backend failed or answered, whatever the extraction and the
\* validation of the answer give.
C13_OneRoundTrip ==
    [][\A c \in CallIds :
          /\ calls'[c].sent <= 1
          /\ calls[c].pc # "idle" => calls'[c].sent = calls[c].sent
          /\ (calls[c].pc = "idle" /\ calls'[c].pc # "idle")
             => /\ calls'[c].outcome.status = "none" => calls'[c].sent = 1
                /\ calls'[c].outcome.status = "thrown" => calls'[c].sent = 0]_vars

\* one request was issued, answered with a payload that fails validation,
\* and the call ended in a failure
C13_Witness ==
    \E c \in CallIds :
        /\ Completed(c, "generateDetailedStorySuggestion")
        /\ calls[c].response.text = <<"{", Q, "summary", Q, ":", Q, "Test", Q, "}">>
        /\ calls[c].outcome.status = "thrown"
        /\ calls[c].sent = 1


\* two calls with the same operation and inputs sent the same request, and
\* with the same response as well ended in the same outcome
SameInputsSameResults ==
    \A c, d \in ConcurrentIds :
        (calls[c].op = calls[d].op /\ calls[c].args = calls[d].args)
        => /\ (calls[c].pc # "idle" /\ calls[d].pc # "idle")
              => /\ calls[c].request = calls[d].request
                 /\ calls[c].sent = calls[d].sent
           /\ (calls[c].pc = "done" /\ calls[d].pc = "done"
                 /\ calls[c].response = calls[d].response)
              => calls[c].outcome = calls[d].outcome

\* C14: with two invocations interleaved in any way, a step of one call
\* changes nothing of the other call, and the request and the outcome of a
\* call are determined by its own operation, inputs and response: calls with
\* the same inputs (and response) have the same request (and outcome)
\* whatever the other call was doing meanwhile.
C14_CallsIndependent ==
    [][/\ \A c, d \in ConcurrentIds :
             (c # d /\ calls'[c] # calls[c]) => calls'[d] = calls[d]
       /\ SameInputsSameResults']_vars

\* both calls are in flight with the same request and got different
\* responses
C14_Witness ==
    /\ calls["c1"].pc = "responded"
    /\ calls["c2"].pc = "responded"
    /\ calls["c1"].op = "generateMangaPage"
    /\ calls["c2"].op = "generateMangaPage"
    /\ calls["c1"].args = calls["c2"].args
    /\ Len(calls["c1"].request) = 4
    /\ calls["c1"].response # calls["c2"].response


\* the prior-page sketch counts as supplied when the page is given and its
\* image is neither undefined nor ''
PriorSketchSupplied(page) ==
    page.present /\ page.proposalImage # UndefinedStr /\ page.proposalImage # <<>>

\* C15: the attachments of a request are, in this order, the previous-page
\* image (if present), the per-character sheet images, the current-canvas or
\* mask image, the newly supplied images: generateLayoutProposal sends
\* [previous page, sheets in roster order, canvas], generateMangaPage sends
\* [previous page, sheets in roster order, panel layout], editMangaPage sends
\* [original, mask, references].
C15_GlobalAttachmentOrder ==
    \A c \in CallIds :
        LET a == calls[c].args
            atts == Attachments(c)
            sheets == [i \in 1..Len(a.characters) |-> ImagePart(a.characters[i].sheetImage)]
            opt(present, image) == IF present THEN <<ImagePart(image)>> ELSE <<>>
        IN  /\ Requested(c, "generateLayoutProposal")
               => atts = opt(PriorSketchSupplied(a.previousPage), a.previousPage.proposalImage)
                         \o sheets
                         \o opt(a.currentCanvasImage \notin {UndefinedStr, <<>>},
                                a.currentCanvasImage)
            /\ Requested(c, "generateMangaPage")
               => atts = opt(PriorImageSupplied(a.previousPage), a.previousPage.generatedImage)
                         \o sheets \o <<ImagePart(a.panelLayoutImageBase64)>>
            /\ Requested(c, "editMangaPage")
               => atts = <<ImagePart(a.originalImageBase64)>>
                         \o opt(a.maskImageBase64 \notin {UndefinedStr, <<>>}, a.maskImageBase64)
                         \o (IF a.hasReferences
                             THEN [i \in 1..Len(a.referenceImagesBase64) |->
                                     ImagePart(a.referenceImagesBase64[i])]
                             ELSE <<>>)


\* the declared response schemas (required members and their types)
PanelConforms(p) ==
    /\ p.t = "object"
    /\ IsInteger(GetMember(p, "panel"))
    /\ GetMember(p, "description").t = "string"
    /\ GetMember(p, "dialogue").t \in {"undefined", "string"}
StoryConforms(v) ==
    /\ v.t = "object"
    /\ GetMember(v, "summary").t = "string"
    /\ GetMember(v, "panels").t = "array"
    /\ \A i \in 1..Len(GetMember(v, "panels").items) :
          PanelConforms(GetMember(v, "panels").items[i])
AnalysisConforms(v) ==
    /\ v.t = "object"
    /\ GetMember(v, "analysis").t = "string"
    /\ GetMember(v, "has_discrepancies").t = "boolean"
    /\ GetMember(v, "correction_prompt").t = "string"

\* C16: in generateDetailedStorySuggestion and analyzeAndSuggestCorrections a
\* response text that parses as JSON but does not conform to the declared
\* schema ends in the invalid-structure failure; the parsed value is not
\* returned.
C16_NonConformingPayloadFails ==
    \A c \in CallIds :
        LET parsed == JSONParse(calls[c].response.text)
            rejected == /\ calls[c].outcome.status = "thrown"
                        /\ calls[c].outcome.error[1] \in InvalidStructureMessages
        IN  /\ (Completed(c, "generateDetailedStorySuggestion") /\ parsed.ok
                  /\ ~StoryConforms(parsed.val)) => rejected
            /\ (Completed(c, "analyzeAndSuggestCorrections") /\ parsed.ok
                  /\ ~AnalysisConforms(parsed.val)) => rejected


LikenessOps == {"generateLayoutProposal", "generateMangaPage", "colorizeMangaPage"}

\* some character of the roster has no sheetImage
SheetMissing(roster) == \E i \in 1..Len(roster) : roster[i].sheetImage = UndefinedStr

\* C17: generateLayoutProposal, generateMangaPage and colorizeMangaPage fail,
\* returning no result, whenever a character of the supplied roster has no
\* sheetImage.
C17_MissingSheetFails ==
    \A c \in CallIds : \A o \in LikenessOps :
        (calls[c].op = o /\ SheetMissing(calls[c].args.characters))
        => /\ calls[c].pc = "done"
           /\ calls[c].outcome.status = "thrown"
           /\ "value" \notin DOMAIN calls[c].outcome

\* the second character of the roster has no sheet
C17_Witness ==
    \E c \in CallIds :
        /\ calls[c].op = "generateMangaPage"
        /\ calls[c].args.characters = <<Aki, Zed>>
        /\ calls[c].outcome.status = "thrown"


\* the prompt of the request contains the text s
PromptMentions(c, s) ==
    \E i \in 1..Len(PromptBlocks(c)) :
        \E k \in 1..Len(PromptBlocks(c)[i]) : PromptBlocks(c)[i][k] = s

\* C18: an editMangaPage request with a mask image carries the masking
\* instructions (white = re-render, black = unchanged) and the attachments
\* [original, mask, references in the given order]; without a mask it carries
\* the whole-image instruction and the attachments [original, references in
\* the given order]; the two instruction blocks never occur together.
C18_MaskedEditRequest ==
    \A c \in CallIds :
        Requested(c, "editMangaPage")
        => LET a == calls[c].args
               masked == a.maskImageBase64 \notin {UndefinedStr, <<>>}
               refs == IF a.hasReferences
                       THEN [i \in 1..Len(a.referenceImagesBase64) |->
                               ImagePart(a.referenceImagesBase64[i])]
                       ELSE <<>>
               maskingBlock == /\ PromptMentions(c, "**CRITICAL INSTRUCTIONS FOR MASKING:**")
                               /\ PromptMentions(c, "WHITE: re-render")
                               /\ PromptMentions(c, "BLACK: unchanged")
               wholeBlock ==
                   PromptMentions(c, "Apply the requested changes to the entire image as appropriate.")
           IN  /\ masked => /\ maskingBlock /\ ~wholeBlock
                            /\ Attachments(c) = <<ImagePart(a.originalImageBase64),
                                                  ImagePart(a.maskImageBase64)>> \o refs
               /\ ~masked => /\ wholeBlock /\ ~maskingBlock
                             /\ Attachments(c) = <<ImagePart(a.originalImageBase64)>> \o refs

\* a masked edit with two different reference images
C18_Witness ==
    \E c \in CallIds :
        /\ Requested(c, "editMangaPage")
        /\ calls[c].args.maskImageBase64 = JpegB
        /\ calls[c].args.referenceImagesBase64 = <<RawC, PngA>>
        /\ Len(Attachments(c)) = 4


\* the first part carrying image bytes, NoPart if there is none
FirstImagePart(parts) ==
    LET is == {i \in 1..Len(parts) : parts[i].kind = "inlineData"}
    IN  IF is = {} THEN NoPart ELSE parts[CHOOSE i \in is : \A j \in is : i <= j]

\* the first part carrying a non-empty text, NoPart if there is none
FirstTextPart(parts) ==
    LET is == {i \in 1..Len(parts) : parts[i].kind = "text" /\ parts[i].text # ""}
    IN  IF is = {} THEN NoPart ELSE parts[CHOOSE i \in is : \A j \in is : i <= j]

\* C19: in every image-producing operation the image of a successful result
\* is that of the first part carrying image bytes, and the text used (the
\* caption generateMangaPage returns, the text embedded in a missing-image
\* failure message) is that of the first part carrying text, in the order of
\* the first candidate's part list.
C19_FirstImageFirstText ==
    \A c \in CallIds : \A o \in ImageOps :
        (Completed(c, o) /\ ~NoCandidates(calls[c].response))
        => LET firstImage == FirstImagePart(FirstParts(c))
               firstText == FirstTextPart(FirstParts(c))
               out == calls[c].outcome
           IN  /\ out.status = "returned" => ResultImage(c) = EncodedImageOf(firstImage)
               /\ (out.status = "returned" /\ o = "generateMangaPage"
                     /\ out.value.text # null) => out.value.text = firstText.text
               /\ (out.status = "thrown" /\ Len(out.error) >= 2 /\ out.error[2] # "")
                  => out.error[2] = firstText.text


\* C20: in a generateDetailedStorySuggestion request the number k written in
\* "[Previous Page k]" and in "[Image k is attached]" for an included prior
\* page is the 1-based position of that page's image among the attachments,
\* also when pages before it were left out.
C20_PageNumbersMatchAttachments ==
    \A c \in CallIds :
        Requested(c, "generateDetailedStorySuggestion")
        => LET blocks == PreviousPageBlocks(c)
               atts == Attachments(c)
               pages == calls[c].args.previousPages
               inc == {i \in 1..Len(pages) : HasImageAndScript(pages[i])}
               rank(i) == Cardinality({j \in inc : j <= i})
           IN  \A i \in inc :
                  \E k \in 1..Len(atts) :
                     /\ blocks[rank(i)][2] = ToString(k)
                     /\ blocks[rank(i)][7] = ToString(k)
                     /\ k = rank(i)
                     /\ atts[k] = ImagePart(pages[i].generatedImage)


\* the request of a generateLayoutProposal call carries one attachment more
\* than the canvas (if given) and the character sheets: the previous page
PreviousSketchAttached(c) ==
    LET a == calls[c].args
        canvas == IF a.currentCanvasImage \in {UndefinedStr, <<>>} THEN 0 ELSE 1
    IN  Len(Attachments(c)) = canvas + Len(a.characters) + 1

\* C21: a generateLayoutProposal prompt announces a "Previous Page Image"
\* (input item 4 and the Visual Continuity block) exactly when a
\* previous-page image is attached to the request; a previousPage whose
\* proposalImage is empty gives neither the text nor the attachment.
C21_PreviousPageTextIffAttached ==
    \A c \in CallIds :
        Requested(c, "generateLayoutProposal")
        => /\ PromptMentions(c, "4.  **Previous Page Image:**") <=> PreviousSketchAttached(c)
           /\ PromptMentions(c, "**Visual Continuity:**") <=> PreviousSketchAttached(c)
           /\ ~PriorSketchSupplied(calls[c].args.previousPage)
              => /\ ~PreviousSketchAttached(c)
                 /\ ~PromptMentions(c, "4.  **Previous Page Image:**")


\* the number of images the first n characters of the roster contribute:
\* every reference image and the sheet
RECURSIVE ImagesOfFirst(_, _)
ImagesOfFirst(roster, n) ==
    IF n = 0 THEN 0
    ELSE ImagesOfFirst(roster, n - 1) + Len(roster[n].referenceImages) + 1

\* C22: the attachments of a colorizeMangaPage request are the monochrome
\* page, then for each character in roster order that character's reference
\* images in their given order followed by its sheet image; their number is
\* 1 + the sum over the characters of (number of reference images + 1).
C22_ColorizeAttachmentOrder ==
    \A c \in CallIds :
        Requested(c, "colorizeMangaPage")
        => LET a == calls[c].args
               atts == Attachments(c)
               n == Len(a.characters)
           IN  /\ Len(atts) = 1 + ImagesOfFirst(a.characters, n)
               /\ atts[1] = ImagePart(a.monochromePageBase64)
               /\ \A i \in 1..n :
                     LET base == 1 + ImagesOfFirst(a.characters, i - 1)
                         refs == a.characters[i].referenceImages
                     IN  /\ \A k \in 1..Len(refs) : atts[base + k] = ImagePart(refs[k])
                         /\ atts[base + Len(refs) + 1] = ImagePart(a.characters[i].sheetImage)

\* a roster of two characters with two and one reference images
C22_Witness ==
    \E c \in CallIds :
        /\ Requested(c, "colorizeMangaPage")
        /\ calls[c].args.characters = <<Aki, Rin>>
        /\ Len(Attachments(c)) = 6


\* the call has exactly one outcome: a returned value or a raised failure
OneOutcome(c) ==
    \/ /\ calls[c].outcome.status = "returned"
       /\ DOMAIN calls[c].outcome = {"status", "value"}
    \/ /\ calls[c].outcome.status = "thrown"
       /\ DOMAIN calls[c].outcome = {"status", "error"}

\* C23: an invocation whose request was answered completes: it ends with
\* exactly one outcome (a returned value or a raised failure); until it
\* ends it has no outcome, the outcome of a call that sent a request comes
\* only after the backend's response or failure, and nothing of the call
\* changes once it has ended.
C23_CompletesWithOneOutcome ==
    /\ \A c \in CallIds :
          (calls[c].pc = "responded") ~> (calls[c].pc = "done" /\ OneOutcome(c))
    /\ [](\A c \in CallIds :
            /\ calls[c].pc = "done" => OneOutcome(c)
            /\ calls[c].pc # "done" => calls[c].outcome = NoOutcome
            /\ (calls[c].pc = "done" /\ calls[c].sent = 1)
               => \/ calls[c].response # NoResponse
                  \/ calls[c].outcome = Thrown(<<"ApiError">>))
    /\ [][\A c \in CallIds : calls[c].pc = "done" => calls'[c] = calls[c]]_vars

\* a call got its response and ended with a returned image
C23_Witness ==
    \E c \in CallIds :
        /\ Completed(c, "generateCharacterSheet")
        /\ calls[c].outcome.status = "returned"


====
